---- MODULE Spec2Model ----
(***************************************************************************)
(* janus: a scalar-valued reverse-mode autograd engine                    *)
(* (src/janus/_src/tensor.py).                                             *)
(*                                                                         *)
(* The state is the heap of Tensor objects created so far, the call stack  *)
(* of the backward pass in progress (Tensor.backward is a plain recursive  *)
(* method; every frame of it is modelled), and the record of the calls the *)
(* client made.  Python values carry their type in the field ty, so that   *)
(* the isinstance checks of the code are modelled as what they test.       *)
(***************************************************************************)
EXTENDS Integers, Sequences, FiniteSets, TLC

\* ------------------------------------------------------------------ bounds
\* The largest finite float of the model (the stand-in of sys.float_info.max:
\* a finite sum beyond it overflows to +/-inf, as binary64 addition does).
MaxFloat == 3
\* Tensor objects created in one run.
MaxNodes == 3
\* Top-level calls of Tensor.backward in one run.
MaxCalls == 2
\* The longest creators list the client passes to the constructor.
MaxCreators == 3
\* Constructor calls in one run that pass creators or creation_op explicitly.
MaxWired == 1

\* ------------------------------------------------------------ Python values
PyNone == [ty |-> "None"]
PyInt(n) == [ty |-> "int", v |-> n]
F(n) == [ty |-> "float", k |-> "fin", v |-> n]
FInf == [ty |-> "float", k |-> "inf", v |-> 1]
FNegInf == [ty |-> "float", k |-> "inf", v |-> -1]
FNaN == [ty |-> "float", k |-> "nan", v |-> 0]
PyList(s) == [ty |-> "list", items |-> s]
PyTuple(s) == [ty |-> "tuple", items |-> s]

\* isinstance(x, float)
IsFloat(x) == x.ty = "float"

\* x is a float and neither NaN nor an infinity (the code never tests this).
IsFinite(x) == x.ty = "float" /\ x.k = "fin"

\* A finite result, rounded as binary64 rounds on overflow.
Overflow(n) ==
  IF n > MaxFloat THEN FInf ELSE IF n < -MaxFloat THEN FNegInf ELSE F(n)

\* float.__add__: x + y on two floats (IEEE 754: NaN is absorbing,
\* inf + -inf is NaN, a finite sum out of range is an infinity).
FAdd(x, y) ==
  IF x.k = "nan" \/ y.k = "nan" THEN FNaN
  ELSE IF x.k = "inf" /\ y.k = "inf" THEN (IF x.v = y.v THEN x ELSE FNaN)
  ELSE IF x.k = "inf" THEN x
  ELSE IF y.k = "inf" THEN y
  ELSE Overflow(x.v + y.v)

\* --------------------------------------------------------------- Function
\* An instance of Function or of a subclass of it.  tensors (the tuple of
\* the inputs) and output are the attributes Function.__call__ sets; an
\* instance that was never called has neither (PyNone here).
NewOp(cls) == [ty |-> cls, tensors |-> PyNone, output |-> PyNone]

\* Add.forward
AddForward(x, y) == FAdd(x, y)

\* A slip in Add.backward: the second input is handed the gradient twice over.
AddBackwardDoubled(grad) == <<grad, FAdd(grad, grad)>>

\* Add.backward: the gradient is passed to both inputs.
AddBackward(grad) == <<grad, grad>>

\* creation_op.forward(*inputs), dispatched on the class: the value, or the
\* exception raised.
Forward(op, inputs) ==
  IF op.ty = "Add"
    THEN IF Len(inputs) = 2
           THEN [exc |-> "none", val |-> AddForward(inputs[1], inputs[2])]
           ELSE [exc |-> "TypeError", val |-> PyNone]
    ELSE [exc |-> "NotImplementedError", val |-> PyNone]

\* creation_op.backward(grad), dispatched on the class: the tuple of
\* gradients, or the exception raised.
OpBackward(op, grad) ==
  IF op.ty = "Add"
    THEN [exc |-> "none", grads |-> AddBackward(grad)]
    ELSE [exc |-> "NotImplementedError", grads |-> <<>>]

\* ------------------------------------------------------------------ state
VARIABLES
  tensors,   \* the Tensor objects, in creation order: data, creators, creation_op, grad
  stack,     \* the frames of Tensor.backward in progress, outermost first
  calls,     \* the top-level backward calls made so far, the last one possibly running
  pre,       \* the grad of every tensor when the last top-level backward call began
  last       \* the last constructor or operator call and what it returned or raised

vars == <<tensors, stack, calls, pre, last>>

Ids == 1..Len(tensors)

\* size is the number of tensors when the call was made.
NoCall == [op |-> "none", args |-> <<>>, result |-> 0, exc |-> "none", size |-> 0]

Init ==
  /\ tensors = <<>>
  /\ stack = <<>>
  /\ calls = <<>>
  /\ pre = <<>>
  /\ last = NoCall

\* ---------------------------------------------------------------- inputs
\* What the client passes as data: the floats 1.0 and 2.0 (2.0 + 2.0
\* overflows when MaxFloat is 3), NaN, and the int 1.
DataInputs == {F(1), F(2), FNaN, PyInt(1)}

\* What the client passes as grad to backward.
GradInputs == {F(1), F(2), PyInt(1)}

RECURSIVE SeqsUpTo(_, _)
SeqsUpTo(S, n) ==
  IF n = 0 THEN {<<>>}
  ELSE LET shorter == SeqsUpTo(S, n - 1)
       IN shorter \cup {Append(s, x) : s \in {t \in shorter : Len(t) = n - 1}, x \in S}

\* What the client passes as creators: nothing (the default None), or a list
\* of tensors that exist.
CreatorsInputs == {PyNone} \cup {PyList(s) : s \in SeqsUpTo(Ids, MaxCreators)}

\* What the client passes as creation_op: nothing, or a fresh Add().
OpInputs == {PyNone, NewOp("Add")}

\* Tensor.__init__ as it would be with a finiteness check in place of the
\* isinstance check.
TensorInitFinite(data, creators, creation_op) ==
  IF IsFinite(data)
    THEN [exc |-> "none",
          obj |-> [data |-> data, creators |-> creators,
                   creation_op |-> creation_op, grad |-> PyNone]]
    ELSE [exc |-> "TypeError", obj |-> PyNone]

\* Tensor.__init__: the new object, or the TypeError.
TensorInit(data, creators, creation_op) ==
  IF IsFloat(data)
    THEN [exc |-> "none",
          obj |-> [data |-> data, creators |-> creators,
                   creation_op |-> creation_op, grad |-> PyNone]]
    ELSE [exc |-> "TypeError", obj |-> PyNone]

\* A tensor the client built by passing creators or creation_op itself
\* (Function.__call__ passes an operation it has called; the client's is fresh).
Wired(t) ==
  /\ t.creators # PyNone \/ t.creation_op # PyNone
  /\ t.creation_op = PyNone \/ t.creation_op.tensors = PyNone

\* The client calls Tensor(data, creators, creation_op); the last two default
\* to None.  Calls that pass either of them are made with data 1.0, and at
\* most MaxWired of them in a run.
NewTensor(data, creators, creation_op) ==
  /\ stack = <<>>
  /\ Len(tensors) < MaxNodes
  /\ \/ creators = PyNone /\ creation_op = PyNone
     \/ /\ Cardinality({n \in Ids : Wired(tensors[n])}) < MaxWired
        /\ data = F(1)
  /\ LET r == TensorInit(data, creators, creation_op)
     IN /\ tensors' = IF r.exc = "none" THEN Append(tensors, r.obj) ELSE tensors
        /\ last' = [op |-> "Tensor", args |-> <<data, creators, creation_op>>,
                    result |-> IF r.exc = "none" THEN Len(tensors) + 1 ELSE 0,
                    exc |-> r.exc, size |-> Len(tensors)]
  /\ UNCHANGED <<stack, calls, pre>>

\* Function.__call__ forgetting to pass creators to the constructor.
ApplyNoCreators(cls, ts) ==
  LET inputs == [i \in 1..Len(ts) |-> tensors[ts[i]].data]
      fw == Forward(NewOp(cls), inputs)
      op == [ty |-> cls, tensors |-> PyTuple(ts), output |-> fw.val]
  IN IF fw.exc # "none" THEN [exc |-> fw.exc, obj |-> PyNone]
     ELSE TensorInit(fw.val, PyNone, op)

\* Function.__call__(self, *ts): the new Tensor, or the exception raised by
\* forward or by Tensor.__init__.
Apply(cls, ts) ==
  LET inputs == [i \in 1..Len(ts) |-> tensors[ts[i]].data]
      fw == Forward(NewOp(cls), inputs)
      op == [ty |-> cls, tensors |-> PyTuple(ts), output |-> fw.val]
  IN IF fw.exc # "none" THEN [exc |-> fw.exc, obj |-> PyNone]
     ELSE TensorInit(fw.val, PyList(ts), op)

\* Tensor.__add__: the client evaluates tensors[x] + tensors[y].
AddOp(x, y) ==
  /\ stack = <<>>
  /\ Len(tensors) < MaxNodes
  /\ LET r == Apply("Add", <<x, y>>)
     IN /\ tensors' = IF r.exc = "none" THEN Append(tensors, r.obj) ELSE tensors
        /\ last' = [op |-> "add", args |-> <<x, y>>,
                    result |-> IF r.exc = "none" THEN Len(tensors) + 1 ELSE 0,
                    exc |-> r.exc, size |-> Len(tensors)]
  /\ UNCHANGED <<stack, calls, pre>>

\* The client evaluates tensors[x] * tensors[y].  Tensor defines no __mul__
\* (and no __rmul__), so Python raises TypeError: unsupported operand type(s).
MulOp(x, y) ==
  /\ stack = <<>>
  /\ Len(tensors) < MaxNodes
  /\ last' = [op |-> "mul", args |-> <<x, y>>, result |-> 0, exc |-> "TypeError",
              size |-> Len(tensors)]
  /\ UNCHANGED <<tensors, stack, calls, pre>>

\* ----------------------------------------------------------------- backward
Frame(n, grad) == [self |-> n, grad |-> grad, pc |-> "entry", grads |-> <<>>, i |-> 0]

Grads == [n \in Ids |-> tensors[n].grad]

\* The client calls tensors[n].backward(grad).
Backward(n, grad) ==
  /\ stack = <<>>
  /\ Len(calls) < MaxCalls
  /\ stack' = <<Frame(n, grad)>>
  /\ calls' = Append(calls, [node |-> n, g |-> grad, status |-> "running",
                             exc |-> "none", at |-> 0, trace |-> <<>>])
  /\ pre' = Grads
  /\ last' = [op |-> "backward", args |-> <<n, grad>>, result |-> 0, exc |-> "none",
              size |-> Len(tensors)]
  /\ UNCHANGED tensors

Top == stack[Len(stack)]
Pop == SubSeq(stack, 1, Len(stack) - 1)
Cur == Len(calls)

\* An exception raised in the frame of tensor n leaves every frame: nothing
\* in backward catches it.
Raised(cs, n, exc) ==
  [cs EXCEPT ![Cur].status = "raised", ![Cur].exc = exc, ![Cur].at = n]

\* A frame returns; the top-level call is over when the outermost one does.
Returned(cs) == IF Len(stack) = 1 THEN [cs EXCEPT ![Cur].status = "ok"] ELSE cs

\* The trace of a call: the tensors whose backward passed its type check, in
\* the order they did.
Visit(n) == [calls EXCEPT ![Cur].trace = Append(@, n)]

\* The accumulation written as a plain assignment: self.grad = grad.
AccumulateOverwrite(old, grad) == grad

\* self.grad = grad if self.grad is None else self.grad + grad
Accumulate(old, grad) == IF old = PyNone THEN grad ELSE FAdd(old, grad)

\* The assignment landing on data as well as on grad.
SetGradAndData(ts, n, v) == [ts EXCEPT ![n].grad = v, ![n].data = v]

\* The assignment to self.grad: the one write backward makes.
SetGrad(ts, n, v) == [ts EXCEPT ![n].grad = v]

\* creation_op.backward called with the accumulated self.grad.
PropagatedTotal(grad, accumulated) == accumulated

\* The argument of self.creation_op.backward(...): the gradient received,
\* not the accumulated self.grad.
PropagatedGrad(grad, accumulated) == grad

\* Lines 53-62 of one frame: the type check, the accumulation, and the call
\* of creation_op.backward; enumerate(self.creators) raises TypeError when
\* creators is None.
Entry ==
  /\ stack # <<>>
  /\ Top.pc = "entry"
  /\ LET f == Top
         t == tensors[f.self]
     IN IF ~IsFloat(f.grad)
          THEN /\ stack' = <<>>
               /\ calls' = Raised(calls, f.self, "TypeError")
               /\ UNCHANGED tensors
          ELSE LET acc == Accumulate(t.grad, f.grad)
               IN /\ tensors' = SetGrad(tensors, f.self, acc)
                  /\ IF t.creation_op = PyNone
                       THEN /\ stack' = Pop
                            /\ calls' = Returned(Visit(f.self))
                       ELSE LET r == OpBackward(t.creation_op, PropagatedGrad(f.grad, acc))
                            IN IF r.exc # "none"
                                 THEN /\ stack' = <<>>
                                      /\ calls' = Raised(Visit(f.self), f.self, r.exc)
                               ELSE IF t.creators.ty # "list"
                                 THEN /\ stack' = <<>>
                                      /\ calls' = Raised(Visit(f.self), f.self, "TypeError")
                               ELSE /\ stack' = [stack EXCEPT ![Len(stack)].pc = "loop",
                                                              ![Len(stack)].grads = r.grads,
                                                              ![Len(stack)].i = 0]
                                    /\ calls' = Visit(f.self)
  /\ UNCHANGED <<pre, last>>

\* The loop with an arity check in front of it: a mismatch raises before any
\* creator is called.
LoopOutcomeChecked(i, ncreators, ngrads) ==
  IF ncreators # ngrads THEN "IndexError"
  ELSE IF i >= ncreators THEN "return"
  ELSE "call"

\* The loop leaving after its first turn.
LoopOutcomeFirstOnly(i, ncreators, ngrads) ==
  IF i >= ncreators \/ i >= 1 THEN "return"
  ELSE IF i >= ngrads THEN "IndexError"
  ELSE "call"

\* What one turn of
\*   for i, creator in enumerate(self.creators): creator.backward(grads[i])
\* does after i turns, for ncreators creators and ngrads gradients: the loop
\* is over, grads[i] raises IndexError, or creator.backward is called.
LoopOutcome(i, ncreators, ngrads) ==
  IF i >= ncreators THEN "return"
  ELSE IF i >= ngrads THEN "IndexError"
  ELSE "call"

\* Lines 63-64 of one frame.
Loop ==
  /\ stack # <<>>
  /\ Top.pc = "loop"
  /\ LET f == Top
         cr == tensors[f.self].creators.items
         out == LoopOutcome(f.i, Len(cr), Len(f.grads))
     IN IF out = "return"
          THEN /\ stack' = Pop
               /\ calls' = Returned(calls)
        ELSE IF out = "IndexError"
          THEN /\ stack' = <<>>
               /\ calls' = Raised(calls, f.self, "IndexError")
        ELSE /\ stack' = Append([stack EXCEPT ![Len(stack)].i = f.i + 1],
                                Frame(cr[f.i + 1], f.grads[f.i + 1]))
             /\ calls' = calls
  /\ UNCHANGED <<tensors, pre, last>>

BackwardStep == Entry \/ Loop

Next ==
  \/ \E data \in DataInputs, creators \in CreatorsInputs, creation_op \in OpInputs :
       NewTensor(data, creators, creation_op)
  \/ \E x \in Ids, y \in Ids : AddOp(x, y)
  \/ \E x \in Ids, y \in Ids : MulOp(x, y)
  \/ \E n \in Ids, grad \in GradInputs : Backward(n, grad)
  \/ Entry
  \/ Loop

Spec == Init /\ [][Next]_vars

\* The interpreter runs a call to its end: a frame that can step does.
FairSpec == Spec /\ WF_vars(BackwardStep)

\* ---------------------------------------------------------------- the graph
\* The creators of tensor n as a sequence (none when creators is None).
Items(n) == IF tensors[n].creators.ty = "list" THEN tensors[n].creators.items ELSE <<>>

\* The operands backward recurses into from n: none without a creation_op.
Edges(n) == IF tensors[n].creation_op = PyNone THEN <<>> ELSE Items(n)

RECURSIVE SumSeq(_)
SumSeq(s) == IF s = <<>> THEN 0 ELSE s[1] + SumSeq(Tail(s))

RECURSIVE Concat(_)
Concat(ss) == IF ss = <<>> THEN <<>> ELSE ss[1] \o Concat(Tail(ss))

\* The tensors reachable from n through operand edges.
RECURSIVE Reach(_)
Reach(n) == {n} \cup UNION {Reach(Edges(n)[i]) : i \in 1..Len(Edges(n))}

\* The number of distinct operand paths from n to m.
RECURSIVE Paths(_, _)
Paths(n, m) ==
  IF n = m THEN 1
  ELSE SumSeq([i \in 1..Len(Edges(n)) |-> Paths(Edges(n)[i], m)])

\* n and then its operands' subgraphs, depth-first in operand order, a shared
\* operand once per edge that leads to it.
RECURSIVE DFSOrder(_)
DFSOrder(n) == <<n>> \o Concat([i \in 1..Len(Edges(n)) |-> DFSOrder(Edges(n)[i])])

IsPrefix(s, t) == Len(s) <= Len(t) /\ SubSeq(t, 1, Len(s)) = s

Count(s, x) == Cardinality({i \in 1..Len(s) : s[i] = x})

\* A leaf made by Tensor(data), and the result of x + y.
IsLeaf(n) == tensors[n].creators = PyNone /\ tensors[n].creation_op = PyNone
IsSum(n) ==
  /\ tensors[n].creation_op # PyNone
  /\ tensors[n].creation_op.ty = "Add"
  /\ tensors[n].creation_op.tensors = PyTuple(Items(n))
  /\ tensors[n].creators.ty = "list"
  /\ Len(Items(n)) = 2
\* n heads a graph built from leaves with + alone.
BuiltWithAdd(n) == \A m \in Reach(n) : IsLeaf(m) \/ IsSum(m)

\* old after k contributions of g.
RECURSIVE Contributed(_, _, _)
Contributed(old, g, k) ==
  IF k = 0 THEN old
  ELSE Contributed(IF old = PyNone THEN g ELSE FAdd(old, g), g, k - 1)

\* float.__mul__ on two floats.
FMul(x, y) ==
  IF x.k = "nan" \/ y.k = "nan" THEN FNaN
  ELSE IF x.k = "inf" \/ y.k = "inf"
    THEN (IF x.v = 0 \/ y.v = 0 THEN FNaN
          ELSE IF (x.v > 0) = (y.v > 0) THEN FInf ELSE FNegInf)
  ELSE Overflow(x.v * y.v)

NoGradBefore == \A m \in DOMAIN pre : pre[m] = PyNone

\* The number of gradients the backward rule of n's creation_op returns.
NGrads(n) == Len(OpBackward(tensors[n].creation_op, F(1)).grads)

\* ------------------------------------------------------------------ claims

\* C1: on a graph built from leaves with +, starting from absent gradients,
\* one completed sink.backward(g) leaves every tensor reachable from the sink
\* with the sum of one contribution g per operand path from the sink to it,
\* which is g times the number of paths (x + y: g and g; x + x: 2g).
C1_AddGradient ==
  (/\ calls # <<>>
   /\ calls[Cur].status = "ok"
   /\ NoGradBefore
   /\ BuiltWithAdd(calls[Cur].node))
  => \A m \in Reach(calls[Cur].node) :
       LET k == Paths(calls[Cur].node, m)
           g == calls[Cur].g
       IN /\ k >= 1
          /\ tensors[m].grad = Contributed(PyNone, g, k)
          /\ IsFinite(tensors[m].grad) => tensors[m].grad.v = g.v * k

\* p = x + x was built, p.backward(1.0) completed from absent gradients, and
\* x.grad is 2.0.
C1_Witness ==
  /\ calls # <<>>
  /\ calls[Cur].status = "ok"
  /\ NoGradBefore
  /\ BuiltWithAdd(calls[Cur].node)
  /\ calls[Cur].g = F(1)
  /\ \E m \in Ids : /\ Paths(calls[Cur].node, m) = 2
                    /\ IsLeaf(m)
                    /\ tensors[m].grad = F(2)

\* C2: backward(g1) and then backward(g2) on the same tensor, both completed
\* and starting from absent gradients, leave that tensor and every leaf
\* reached from it by a single path with g1 + g2.
C2_Accumulates ==
  (/\ Len(calls) = 2
   /\ calls[1].status = "ok"
   /\ calls[2].status = "ok"
   /\ calls[1].node = calls[2].node)
  => LET n == calls[1].node
         total == FAdd(calls[1].g, calls[2].g)
     IN /\ tensors[n].grad = total
        /\ \A m \in Ids :
             (Paths(n, m) = 1 /\ tensors[m].creation_op = PyNone)
               => tensors[m].grad = total

\* z = x + y, z.backward(1.0), z.backward(2.0): z and a leaf under it hold 3.0.
C2_Witness ==
  /\ Len(calls) = 2
  /\ calls[1].status = "ok"
  /\ calls[2].status = "ok"
  /\ calls[1].node = calls[2].node
  /\ calls[1].g = F(1)
  /\ calls[2].g = F(2)
  /\ tensors[calls[1].node].creation_op # PyNone
  /\ tensors[calls[1].node].grad = F(3)
  /\ \E m \in Ids : /\ m # calls[1].node
                    /\ Paths(calls[1].node, m) = 1
                    /\ tensors[m].creation_op = PyNone
                    /\ tensors[m].grad = F(3)

\* C3: for distinct leaves x = a and y = b, z = x * y is a tensor, and
\* z.backward(g) completes and leaves x.grad = g*b and y.grad = g*a.
C3_MulGradient ==
  /\ (/\ last.op = "mul"
      /\ last.args[1] # last.args[2]
      /\ IsLeaf(last.args[1])
      /\ IsLeaf(last.args[2]))
     => /\ last.exc = "none"
        /\ last.result \in Ids
        /\ tensors[last.result].creation_op # PyNone
        /\ tensors[last.result].creators = PyList(last.args)
  /\ \A c \in 1..Len(calls) :
       LET z == calls[c].node
       IN (/\ c = Cur
           /\ stack = <<>>
           /\ NoGradBefore
           /\ IsFloat(calls[c].g)
           /\ tensors[z].creation_op # PyNone
           /\ tensors[z].creation_op.ty = "Multiply")
          => /\ calls[c].status = "ok"
             /\ tensors[Items(z)[1]].grad = FMul(calls[c].g, tensors[Items(z)[2]].data)
             /\ tensors[Items(z)[2]].grad = FMul(calls[c].g, tensors[Items(z)[1]].data)

\* C4: x + y returns a new tensor whose data is a + b, and x * y returns a new
\* tensor whose data is a * b.
C4_Forward ==
  last.op \in {"add", "mul"}
  => /\ last.exc = "none"
     /\ last.result = last.size + 1
     /\ last.result \in Ids
     /\ LET a == tensors[last.args[1]].data
            b == tensors[last.args[2]].data
        IN tensors[last.result].data = IF last.op = "add" THEN FAdd(a, b) ELSE FMul(a, b)

\* C5 as stated: a constructor call with NaN or an infinity fails and creates
\* no tensor, and no tensor holds a value that is not finite.
C5_FiniteOnly ==
  /\ \A n \in Ids : IsFinite(tensors[n].data)
  /\ (last.op = "Tensor" /\ ~IsFinite(last.args[1]))
       => last.exc # "none" /\ last.result = 0 /\ Len(tensors) = last.size

\* C5, amended: the constructor rejects what is not a float, with TypeError
\* and without creating a tensor, and accepts every float, NaN and the
\* infinities included, in a direct call and for the result of x + y; every
\* tensor holds a float.
C5_FloatOnly ==
  /\ \A n \in Ids : IsFloat(tensors[n].data)
  /\ last.op = "Tensor"
       => IF IsFloat(last.args[1])
            THEN /\ last.exc = "none"
                 /\ last.result = last.size + 1
                 /\ Len(tensors) = last.size + 1
                 /\ tensors[last.result].data = last.args[1]
            ELSE /\ last.exc = "TypeError"
                 /\ last.result = 0
                 /\ Len(tensors) = last.size
  /\ last.op = "add"
       => /\ last.exc = "none"
          /\ Len(tensors) = last.size + 1
          /\ tensors[last.result].data
               = FAdd(tensors[last.args[1]].data, tensors[last.args[2]].data)

\* Tensor(nan) was just accepted, and another tensor is a sum that overflowed
\* to infinity.
C5_Witness ==
  /\ last.op = "Tensor"
  /\ last.args[1] = FNaN
  /\ last.result \in Ids
  /\ tensors[last.result].data = FNaN
  /\ \E m \in Ids : IsSum(m) /\ tensors[m].data = FInf
                    /\ \A i \in 1..2 : IsFinite(tensors[Items(m)[i]].data)

\* C6 as stated: in every state every tensor has a creation_op exactly when
\* it has creators.
C6_ProducerIffOperands ==
  \A n \in Ids : (tensors[n].creation_op = PyNone) <=> (Items(n) = <<>>)

\* C6, amended: the two agree on every tensor made by Tensor(data) with the
\* defaults or returned by an operator; the result of x + y has a creation_op
\* and its creators are the list [x, y], which are older tensors; the
\* constructor does not check creators and creation_op passed to it.
C6_AgreeUnlessPassed ==
  /\ \A n \in Ids :
       ~Wired(tensors[n])
         => /\ (tensors[n].creation_op = PyNone) <=> (Items(n) = <<>>)
            /\ tensors[n].creation_op # PyNone
                 => /\ tensors[n].creators.ty = "list"
                    /\ tensors[n].creation_op.tensors = PyTuple(Items(n))
                    /\ \A i \in 1..Len(Items(n)) : Items(n)[i] < n
  /\ (last.op = "add" /\ last.result # 0)
       => /\ ~Wired(tensors[last.result])
          /\ tensors[last.result].creation_op # PyNone
          /\ tensors[last.result].creators = PyList(last.args)
  /\ (last.op = "Tensor" /\ last.result # 0
        /\ last.args[2] = PyNone /\ last.args[3] = PyNone)
       => IsLeaf(last.result)

\* x + y was just returned, while an older tensor was built by the client
\* with creators and no creation_op.
C6_Witness ==
  /\ last.op = "add"
  /\ last.result \in Ids
  /\ IsSum(last.result)
  /\ \E n \in Ids : Wired(tensors[n]) /\ tensors[n].creation_op = PyNone
                    /\ Items(n) # <<>>

\* C7: while a call n.backward(g) runs, no tensor is created, no data,
\* creators or creation_op changes, and no grad changes except on tensors
\* reachable from n through operand edges.
C7_Frame ==
  [][(stack # <<>> \/ stack' # <<>>)
       => /\ Len(tensors') = Len(tensors)
          /\ \A m \in Ids :
               /\ tensors'[m].data = tensors[m].data
               /\ tensors'[m].creators = tensors[m].creators
               /\ tensors'[m].creation_op = tensors[m].creation_op
               /\ m \notin Reach(calls'[Len(calls')].node)
                    => tensors'[m].grad = tensors[m].grad]_vars

\* t3 = t1 + t2 with 1.0 and 2.0, t3.backward(1.0) completed: the gradients
\* are set and the data are 1.0, 2.0 and 3.0.
C7_Witness ==
  /\ Len(tensors) = 3
  /\ calls # <<>>
  /\ calls[Cur].status = "ok"
  /\ calls[Cur].node = 3
  /\ IsSum(3)
  /\ Items(3) = <<1, 2>>
  /\ tensors[1].data = F(1) /\ tensors[2].data = F(2) /\ tensors[3].data = F(3)
  /\ tensors[1].grad = F(1) /\ tensors[2].grad = F(1)

\* C8 as stated: after a backward call that failed, every gradient is what it
\* was before the call.
C8_AllOrNothing ==
  (calls # <<>> /\ calls[Cur].status = "raised")
  => \A m \in DOMAIN pre : tensors[m].grad = pre[m]

\* C8, amended: a call that fails because g is not a float changes no
\* gradient; a call that fails later keeps every accumulation made before
\* the failure, that of n itself first: each tensor holds its gradient from
\* before the call plus one g per visit made, and nothing is rolled back.
C8_NoRollback ==
  (calls # <<>> /\ calls[Cur].status = "raised")
  => LET c == calls[Cur]
     IN /\ ~IsFloat(c.g)
             => /\ c.trace = <<>>
                /\ \A m \in DOMAIN pre : tensors[m].grad = pre[m]
        /\ IsFloat(c.g)
             => /\ c.trace # <<>>
                /\ c.trace[1] = c.node
                /\ \A m \in DOMAIN pre :
                     tensors[m].grad = Contributed(pre[m], c.g, Count(c.trace, m))

\* A call raised IndexError below its entry and left gradients changed.
C8_Witness ==
  /\ calls # <<>>
  /\ calls[Cur].status = "raised"
  /\ calls[Cur].exc = "IndexError"
  /\ \E m \in DOMAIN pre : m # calls[Cur].node /\ tensors[m].grad # pre[m]

\* C9 as stated: a call that completes has met, at every tensor it visited
\* that has a creation_op, as many gradients as operands (a mismatch, fewer
\* or more, makes the call fail).
C9_ArityChecked ==
  (calls # <<>> /\ calls[Cur].status = "ok")
  => \A i \in 1..Len(calls[Cur].trace) :
       LET m == calls[Cur].trace[i]
       IN tensors[m].creation_op # PyNone => NGrads(m) = Len(Items(m))

\* C9, amended: there is no arity check.  With fewer gradients than operands
\* the call raises IndexError at the first operand that has none, after the
\* operands before it were called; with more gradients than operands the call
\* completes and the surplus is ignored.  A call that completes has paired
\* every operand, in order, with the gradient at its index.
C9_NoArityCheck ==
  calls # <<>>
  => LET c == calls[Cur]
     IN /\ c.status = "ok"
             => /\ c.trace = DFSOrder(c.node)
                /\ \A i \in 1..Len(c.trace) :
                     tensors[c.trace[i]].creation_op # PyNone
                       => NGrads(c.trace[i]) >= Len(Items(c.trace[i]))
        /\ c.exc = "IndexError"
             => /\ NGrads(c.at) < Len(Items(c.at))
                /\ \A i \in 1..NGrads(c.at) : Count(c.trace, Items(c.at)[i]) >= 1
        /\ (c.status # "running" /\ \E i \in 1..Len(c.trace) :
                                      /\ tensors[c.trace[i]].creation_op # PyNone
                                      /\ NGrads(c.trace[i]) < Len(Items(c.trace[i])))
             => c.status = "raised"

\* A call completed although a tensor it visited has one operand and a
\* backward rule that returned two gradients.
C9_Witness ==
  /\ calls # <<>>
  /\ calls[Cur].status = "ok"
  /\ \E i \in 1..Len(calls[Cur].trace) :
       LET m == calls[Cur].trace[i]
       IN /\ tensors[m].creation_op # PyNone
          /\ Len(Items(m)) = 1
          /\ NGrads(m) = 2
          /\ tensors[Items(m)[1]].grad = calls[Cur].g

\* Every creator of a tensor is an older tensor.
Acyclic == \A n \in Ids : \A i \in 1..Len(Items(n)) : Items(n)[i] < n

\* The call in progress has visited a prefix of the depth-first order, holds
\* no more frames than there are tensors, and is running exactly while a
\* frame is left; a completed call has visited all of it.
DepthFirst ==
  calls # <<>>
  => LET c == calls[Cur]
     IN /\ IsPrefix(c.trace, DFSOrder(c.node))
        /\ c.status = "ok" => c.trace = DFSOrder(c.node)
        /\ Len(c.trace) <= SumSeq([m \in 1..Len(tensors) |-> Paths(c.node, m)])
        /\ Len(stack) <= Len(tensors)
        /\ (c.status = "running") <=> (stack # <<>>)

\* C10: the graph is acyclic, backward visits depth-first in operand order
\* with one call per operand edge, and every call ends, completed or raised.
C10_Terminates ==
  /\ [](Acyclic /\ DepthFirst)
  /\ [](stack # <<>> => <>(stack = <<>>))

\* q = p + p over p = x + x: q.backward completed after seven calls.
C10_Witness ==
  /\ calls # <<>>
  /\ calls[Cur].status = "ok"
  /\ calls[Cur].trace = <<3, 2, 1, 1, 2, 1, 1>>

====
